---------------------------- MODULE Spec2Model ----------------------------
(***************************************************************************)
(* Model of the CargoEscape procedural audio pipeline                      *)
(* (src/generate_audio.py, src/generate_music.py): the sample generators,  *)
(* mix_tracks, loop_to_duration and save_wav.                              *)
(*                                                                         *)
(* Python floats are modelled as exact rationals <<n, d>> (d > 0, lowest   *)
(* terms), so float rounding is abstracted away; int() is truncation       *)
(* toward zero.  Times are rationals in seconds.  sin(), exp() and         *)
(* random() have no rational value: a generated sample is represented by   *)
(* its gain, the rational factor that multiplies the unit-bounded waveform *)
(* term of the sample.                                                     *)
(***************************************************************************)
EXTENDS Integers, Sequences, FiniteSets, TLC

-----------------------------------------------------------------------------
(* Exact rational arithmetic standing for Python float arithmetic.         *)

RECURSIVE GCD(_, _)
GCD(a, b) == IF b = 0 THEN a ELSE GCD(b, a % b)

IAbs(n) == IF n < 0 THEN -n ELSE n

R(n, d) ==
    LET s == IF d < 0 THEN -1 ELSE 1
        g == GCD(IAbs(n), IAbs(d))
    IN  <<(s * n) \div g, (s * d) \div g>>

RAdd(x, y) == R(x[1] * y[2] + y[1] * x[2], x[2] * y[2])
RSub(x, y) == R(x[1] * y[2] - y[1] * x[2], x[2] * y[2])
RMul(x, y) == R(x[1] * y[1], x[2] * y[2])
RDiv(x, y) == R(x[1] * y[2], x[2] * y[1])
RLt(x, y)  == x[1] * y[2] < y[1] * x[2]
RLe(x, y)  == x[1] * y[2] <= y[1] * x[2]
RAbs(x)    == <<IAbs(x[1]), x[2]>>
RMin(x, y) == IF RLt(y, x) THEN y ELSE x
RMax(x, y) == IF RLt(x, y) THEN y ELSE x
RInt(n)    == <<n, 1>>

\* Mathematical floor of a rational (used only to state properties).
Floor(x) == x[1] \div x[2]

IMin(a, b) == IF a < b THEN a ELSE b
IMax(a, b) == IF a < b THEN b ELSE a

-----------------------------------------------------------------------------
(* Bounds of the model.                                                    *)

\* Longest input buffer handed to loop_to_duration.
MaxLen == 3
\* Most tracks handed to one mix_tracks call.
MaxTracks == 3
\* Most samples, over all its tracks, handed to one mix_tracks call.
MaxMixSamples == 4
\* Longest input buffer handed to save_wav.
MaxWavLen == 2
\* Longest duration drawn, in half sample periods (1/88200 s).
MaxTicks == 7

-----------------------------------------------------------------------------
(* Program constants.                                                      *)

SAMPLE_RATE == 44100

\* Half a sample period: durations are drawn as multiples of it, so that
\* SAMPLE_RATE * duration takes integral and non-integral values.
TicksPerSecond == 2 * SAMPLE_RATE

Ticks(k) == R(k, TicksPerSecond)

\* int(x): Python's float-to-int conversion truncates toward zero.
PyIntRound(x) == (2 * x[1] + x[2]) \div (2 * x[2])
PyInt(x) == IF x[1] >= 0 THEN x[1] \div x[2] ELSE -((-x[1]) \div x[2])

\* int(SAMPLE_RATE * duration)
NumSamples(duration) == PyInt(RMul(RInt(SAMPLE_RATE), duration))

\* seq[:n], Python's prefix slice.
SliceWhole(seq, n) == seq
SlicePrefix(seq, n) ==
    LET stop == IF n >= 0 THEN IMin(n, Len(seq)) ELSE IMax(Len(seq) + n, 0)
    IN  SubSeq(seq, 1, stop)

-----------------------------------------------------------------------------
(* Input domains.                                                          *)

\* Sample values offered to the mixer and the looper.
MixVals == {R(-1, 1), R(9, 20), R(1, 1)}

BuffersOver(vals, n) == UNION {[1..k -> vals] : k \in 0..n}

LoopBuffers == BuffersOver(MixVals, MaxLen)

RECURSIVE SumLens(_)
SumLens(ls) == IF ls = <<>> THEN 0 ELSE ls[1] + SumLens(Tail(ls))

\* The track lengths of one mix_tracks call: n tracks, at most MaxMixSamples
\* samples in all.
TrackLens(n) ==
    {ls \in [1..n -> 0..MaxMixSamples] : SumLens(ls) <= MaxMixSamples}

\* The n tracks of lengths ls holding the samples of flat, in order.
CutTracks(flat, ls) ==
    [k \in 1..Len(ls) |->
        LET before == SumLens(SubSeq(ls, 1, k - 1))
        IN  SubSeq(flat, before + 1, before + ls[k])]

Durations == {Ticks(k) : k \in -2..MaxTicks}

-----------------------------------------------------------------------------
(* mix_tracks                                                              *)

RECURSIVE MaxOfLens(_)
MaxOfLens(ts) ==
    IF Len(ts) = 1 THEN Len(ts[1]) ELSE IMax(Len(ts[1]), MaxOfLens(Tail(ts)))

\* max(len(t) for t in tracks)
FirstTrackLen(ts) == Len(ts[1])
MaxTrackLen(ts) == MaxOfLens(ts)

\* for i, sample in enumerate(track): result[i] += sample
AccumulateOverwrite(result, track) ==
    [i \in 1..Len(result) |-> IF i <= Len(track) THEN track[i] ELSE result[i]]
Accumulate(result, track) ==
    [i \in 1..Len(result) |->
        IF i <= Len(track) THEN RAdd(result[i], track[i]) ELSE result[i]]

\* result = [0.0] * max_len, then every track accumulated in argument order.
RECURSIVE SumInto(_, _)
SumInto(result, ts) ==
    IF ts = <<>> THEN result ELSE SumInto(Accumulate(result, ts[1]), Tail(ts))

MixSum(ts) == SumInto([i \in 1..MaxTrackLen(ts) |-> RInt(0)], ts)

RECURSIVE MaxAbs(_)
MaxAbs(buf) ==
    IF Len(buf) = 1 THEN RAbs(buf[1]) ELSE RMax(RAbs(buf[1]), MaxAbs(Tail(buf)))

\* peak = max(abs(s) for s in result) if result else 1.0
Peak(buf) == IF buf = <<>> THEN RInt(1) ELSE MaxAbs(buf)

\* if peak > 0.9: result = [s / peak * 0.85 for s in result]
NormalizeToUnit(buf) ==
    LET peak == Peak(buf)
    IN  IF RLt(R(9, 10), peak)
        THEN [i \in 1..Len(buf) |-> RDiv(buf[i], peak)]
        ELSE buf
NormalizeAttenuate(buf) ==
    LET peak == Peak(buf)
    IN  IF RLt(R(9, 10), peak)
        THEN [i \in 1..Len(buf) |-> RMul(buf[i], R(85, 100))]
        ELSE buf
NormalizeAtThreshold(buf) ==
    LET peak == Peak(buf)
    IN  IF RLe(R(9, 10), peak)
        THEN [i \in 1..Len(buf) |-> RMul(RDiv(buf[i], peak), R(85, 100))]
        ELSE buf
Normalize(buf) ==
    LET peak == Peak(buf)
    IN  IF RLt(R(9, 10), peak)
        THEN [i \in 1..Len(buf) |-> RMul(RDiv(buf[i], peak), R(85, 100))]
        ELSE buf

\* The value mix_tracks(*ts) returns, for one or more tracks.
mix_tracks(ts) == Normalize(MixSum(ts))

\* result[i] += sample raises IndexError when i is outside result.
MixWritesOutside(ts) == \E k \in 1..Len(ts) : Len(ts[k]) > MaxTrackLen(ts)

\* How the call mix_tracks(*ts) ends: max() of no lengths raises
\* ValueError; tracks that are all empty give max_len = 0 and raise nothing.
MixOutcomeRejectsEmpty(ts) ==
    IF ts = <<>> \/ \A k \in 1..Len(ts) : ts[k] = <<>> THEN "ValueError"
    ELSE IF MixWritesOutside(ts) THEN "IndexError"
    ELSE "none"
MixOutcome(ts) ==
    IF ts = <<>> THEN "ValueError"
    ELSE IF MixWritesOutside(ts) THEN "IndexError"
    ELSE "none"

-----------------------------------------------------------------------------
(* The sample generators.  A generated sample is the record                *)
(*   [gain |-> g, weight |-> w]                                            *)
(* standing for g * u, where u is the sample's waveform term: a weighted   *)
(* sum of sin() values, random draws in [-1, 1) and factors in [0, 1]      *)
(* (exp(-5t), the alert pulse), of absolute value at most w.  A note's     *)
(* sample also holds the frequency its waveform term is computed from, and *)
(* a returned sample the random number it was computed from (draw).        *)

Sample(g, w) == [gain |-> g, weight |-> w]

\* Sample index i (from 0) as the fraction t = i / num_samples.
Frac(i, n) == R(i, n)

\* a / b on integers.  Python raises ZeroDivisionError for b = 0: the pair
\* <<1, 0>>, which is no rational, stands for the raise.
PyDiv(a, b) == IF b = 0 THEN <<1, 0>> ELSE R(a, b)

\* volume * envelope; a raised division leaves nothing to multiply.
Enveloped(volume, envelope) ==
    IF envelope[2] = 0 THEN envelope ELSE RMul(volume, envelope)

\* generate_sine_wave / generate_note: linear fade-in, hold, linear fade-out.
FadeEnvelopeInclusive(i, n, fade_in_samples, fade_out_samples) ==
    IF i <= fade_in_samples THEN PyDiv(i, fade_in_samples)
    ELSE IF i >= n - fade_out_samples THEN PyDiv(n - i, fade_out_samples)
    ELSE RInt(1)
FadeEnvelopeOutFirst(i, n, fade_in_samples, fade_out_samples) ==
    IF i > n - fade_out_samples THEN PyDiv(n - i, fade_out_samples)
    ELSE IF i < fade_in_samples THEN PyDiv(i, fade_in_samples)
    ELSE RInt(1)
FadeEnvelopeUnguarded(i, n, fade_in_samples, fade_out_samples) ==
    IF i < fade_in_samples THEN PyDiv(i, fade_in_samples)
    ELSE IF fade_out_samples > 0 THEN PyDiv(n - i, fade_out_samples)
    ELSE RInt(1)
FadeEnvelope(i, n, fade_in_samples, fade_out_samples) ==
    IF i < fade_in_samples THEN PyDiv(i, fade_in_samples)
    ELSE IF i > n - fade_out_samples THEN PyDiv(n - i, fade_out_samples)
    ELSE RInt(1)

\* generate_noise: hold, linear fade-out.
NoiseEnvelope(i, n, fade_out_samples) ==
    IF i > n - fade_out_samples THEN PyDiv(n - i, fade_out_samples)
    ELSE RInt(1)

\* Some sample of the buffer could not be computed: its division raised.
DividesByZero(buf) == \E k \in 1..Len(buf) : buf[k].gain[2] = 0

\* Every generator appends one sample per pass of "for i in
\* range(num_samples)": its buffer is [k \in 1..n |-> S(k - 1)], which
\* is empty when n <= 0.

generate_sine_wave(frequency, dur, volume, fade_in, fade_out) ==
    LET n == NumSamples(dur)
        fi == NumSamples(fade_in)
        fo == NumSamples(fade_out)
        S(i) == Sample(Enveloped(volume, FadeEnvelope(i, n, fi, fo)), RInt(1))
    IN  [k \in 1..n |-> S(k - 1)]

generate_noise(dur, volume, fade_out) ==
    LET n == NumSamples(dur)
        fo == NumSamples(fade_out)
        S(i) == Sample(Enveloped(volume, NoiseEnvelope(i, n, fo)), RInt(1))
    IN  [k \in 1..n |-> S(k - 1)]

generate_sweep(start_freq, end_freq, dur, volume) ==
    LET n == NumSamples(dur)
        S(i) == Sample(RMul(volume,
                            RSub(RInt(1), RMul(Frac(i, n), R(1, 2)))),
                       RInt(1))
    IN  [k \in 1..n |-> S(k - 1)]

generate_beep(frequency, dur, volume) ==
    generate_sine_wave(frequency, dur, volume, R(5, 1000), R(2, 100))

generate_explosion(dur, volume) ==
    LET n == NumSamples(dur)
        S(i) == Sample(volume, RAdd(R(1, 2), R(1, 2)))
    IN  [k \in 1..n |-> S(k - 1)]

generate_laser(dur, volume) ==
    LET n == NumSamples(dur)
        S(i) == Sample(RMul(RSub(RInt(1), Frac(i, n)), volume), RInt(1))
    IN  [k \in 1..n |-> S(k - 1)]

generate_door(opening, dur) ==
    LET n == NumSamples(dur)
        S(i) == Sample(RMul(R(4, 10),
                            RSub(RInt(1),
                                 RMul(RAbs(RSub(Frac(i, n), R(1, 2))),
                                      RInt(2)))),
                       RAdd(RInt(1), R(1, 10)))
    IN  [k \in 1..n |-> S(k - 1)]

generate_ui_click(dur, volume) ==
    generate_sine_wave(RInt(800), dur, volume, R(1, 1000), R(2, 100))

generate_loot_pickup(rarity, dur) ==
    LET n == NumSamples(dur)
        w == RAdd(RInt(1),
                  RAdd(IF rarity >= 2 THEN R(2, 10) ELSE RInt(0),
                       IF rarity >= 4 THEN R(15, 100) ELSE RInt(0)))
        S(i) == Sample(RMul(R(4, 10),
                            RSub(RInt(1), RMul(Frac(i, n), R(1, 2)))), w)
    IN  [k \in 1..n |-> S(k - 1)]

generate_alert(urgent, dur) ==
    LET n == NumSamples(dur)
        S(i) == Sample(RMul(R(1, 2),
                            RSub(RInt(1), RMul(Frac(i, n), R(3, 10)))),
                       RInt(1))
    IN  [k \in 1..n |-> S(k - 1)]

generate_ambient_loop(dur, base_freq) ==
    LET n == NumSamples(dur)
        S(i) == Sample(RInt(1),
                       RAdd(RMul(R(15, 100),
                                 RAdd(RInt(1), RAdd(R(5, 10), R(3, 10)))),
                            R(5, 100)))
    IN  [k \in 1..n |-> S(k - 1)]

generate_note(frequency, dur, volume, attack, release) ==
    LET n == NumSamples(dur)
        a == NumSamples(attack)
        r == NumSamples(release)
        S(i) == [gain |-> Enveloped(volume, FadeEnvelope(i, n, a, r)),
                 weight |-> RAdd(R(6, 10), RAdd(R(25, 100), R(15, 100))),
                 freq |-> frequency]
    IN  [k \in 1..n |-> S(k - 1)]

generate_padOverweight(frequency, dur, volume) ==
    LET n == NumSamples(dur)
        S(i) == Sample(volume,
                       RAdd(R(4, 10), RAdd(R(3, 10), RAdd(R(2, 10), R(2, 10)))))
    IN  [k \in 1..n |-> S(k - 1)]

generate_pad(frequency, dur, volume) ==
    LET n == NumSamples(dur)
        S(i) == Sample(volume,
                       RAdd(R(4, 10), RAdd(R(3, 10), RAdd(R(2, 10), R(1, 10)))))
    IN  [k \in 1..n |-> S(k - 1)]

generate_bass(frequency, dur, volume) ==
    LET n == NumSamples(dur)
        S(i) == Sample(RMul(volume,
                            RMul(RMin(RInt(1),
                                      RDiv(RInt(i),
                                           RMul(RInt(SAMPLE_RATE), R(2, 100)))),
                                 RSub(RInt(1), RMul(Frac(i, n), R(2, 10))))),
                       RAdd(R(7, 10), R(3, 10)))
    IN  [k \in 1..n |-> S(k - 1)]

\* generate_arp: the notes' buffers one after the other.
RECURSIVE generate_arpReversed(_, _, _)
generate_arpReversed(notes, note_duration, volume) ==
    IF notes = <<>> THEN <<>>
    ELSE generate_arpReversed(Tail(notes), note_duration, volume)
         \o generate_note(notes[1], note_duration, volume, R(1, 100),
                          R(5, 100))
RECURSIVE generate_arp(_, _, _)
generate_arp(notes, note_duration, volume) ==
    IF notes = <<>> THEN <<>>
    ELSE generate_note(notes[1], note_duration, volume, R(1, 100), R(5, 100))
         \o generate_arp(Tail(notes), note_duration, volume)

\* Calls of random.random() a generator makes: one per sample of the
\* noise-bearing generators.
RandomDrawsEvery(g, buf) == Len(buf)
RandomDraws(g, buf) ==
    IF g \in {"generate_noise", "generate_explosion", "generate_door"}
    THEN Len(buf) ELSE 0

Generators ==
    {"generate_sine_wave", "generate_noise", "generate_sweep",
     "generate_beep", "generate_explosion", "generate_laser", "generate_door",
     "generate_ui_click", "generate_loot_pickup", "generate_alert",
     "generate_ambient_loop", "generate_note", "generate_pad",
     "generate_bass", "generate_arp"}

\* The positions of the random source (the count of numbers already drawn
\* from its stream) a call may find.
RngStates == {0, 5}

\* The buffer as the call leaves it when the random source stood at r: a
\* sample computed from a random number holds the position of that number
\* in the stream; draw is -1 for a sample computed from none.
Drawn(g, buf, r) ==
    [k \in 1..Len(buf) |->
        buf[k] @@ [draw |-> IF RandomDraws(g, SubSeq(buf, 1, k))
                                 > RandomDraws(g, SubSeq(buf, 1, k - 1))
                            THEN r + RandomDraws(g, SubSeq(buf, 1, k - 1))
                            ELSE -1]]

\* Argument values offered to the generators.
Frequencies == {RInt(220), RInt(440)}
Volumes == {R(1, 2), RInt(1)}
Fades == {Ticks(0), Ticks(2), Ticks(5)}
Rarities == {0, 2, 4}
ArpNotes == {<<>>, <<RInt(440)>>, <<RInt(220), RInt(440)>>}

\* The argument records of generator g with duration d.
ArgsOf(g, d) ==
    CASE g = "generate_sine_wave" ->
            [frequency : Frequencies, duration : {d}, volume : Volumes,
             fade_in : Fades, fade_out : Fades]
      [] g = "generate_noise" ->
            [duration : {d}, volume : Volumes, fade_out : Fades]
      [] g = "generate_sweep" ->
            [start_freq : Frequencies, end_freq : Frequencies,
             duration : {d}, volume : {RInt(1)}]
      [] g \in {"generate_beep", "generate_pad", "generate_bass"} ->
            [frequency : Frequencies, duration : {d}, volume : Volumes]
      [] g \in {"generate_explosion", "generate_laser", "generate_ui_click"} ->
            [duration : {d}, volume : Volumes]
      [] g = "generate_door" -> [opening : BOOLEAN, duration : {d}]
      [] g = "generate_loot_pickup" -> [rarity : Rarities, duration : {d}]
      [] g = "generate_alert" -> [urgent : BOOLEAN, duration : {d}]
      [] g = "generate_ambient_loop" ->
            [duration : {d}, base_freq : {RInt(60), RInt(80)}]
      [] g = "generate_note" ->
            [frequency : {RInt(440)}, duration : {d}, volume : Volumes,
             attack : Fades, release : Fades]
      [] g = "generate_arp" ->
            [notes : ArpNotes, duration : {d}, volume : Volumes]

\* The buffer generator g returns for the arguments a.
Generate(g, a) ==
    CASE g = "generate_sine_wave" ->
            generate_sine_wave(a.frequency, a.duration, a.volume,
                               a.fade_in, a.fade_out)
      [] g = "generate_noise" ->
            generate_noise(a.duration, a.volume, a.fade_out)
      [] g = "generate_sweep" ->
            generate_sweep(a.start_freq, a.end_freq, a.duration, a.volume)
      [] g = "generate_beep" ->
            generate_beep(a.frequency, a.duration, a.volume)
      [] g = "generate_explosion" -> generate_explosion(a.duration, a.volume)
      [] g = "generate_laser" -> generate_laser(a.duration, a.volume)
      [] g = "generate_door" -> generate_door(a.opening, a.duration)
      [] g = "generate_ui_click" -> generate_ui_click(a.duration, a.volume)
      [] g = "generate_loot_pickup" ->
            generate_loot_pickup(a.rarity, a.duration)
      [] g = "generate_alert" -> generate_alert(a.urgent, a.duration)
      [] g = "generate_ambient_loop" ->
            generate_ambient_loop(a.duration, a.base_freq)
      [] g = "generate_note" ->
            generate_note(a.frequency, a.duration, a.volume,
                          a.attack, a.release)
      [] g = "generate_pad" ->
            generate_pad(a.frequency, a.duration, a.volume)
      [] g = "generate_bass" ->
            generate_bass(a.frequency, a.duration, a.volume)
      [] g = "generate_arp" ->
            generate_arp(a.notes, a.duration, a.volume)

-----------------------------------------------------------------------------
(* State.                                                                  *)

\* NOTES = {'C3': 130.81, ...}
NotesTable ==
    [C3 |-> R(13081, 100), D3 |-> R(14683, 100), E3 |-> R(16481, 100),
     F3 |-> R(17461, 100), G3 |-> R(19600, 100), A3 |-> R(22000, 100),
     B3 |-> R(24694, 100), C4 |-> R(26163, 100), D4 |-> R(29366, 100),
     E4 |-> R(32963, 100), F4 |-> R(34923, 100), G4 |-> R(39200, 100),
     A4 |-> R(44000, 100), B4 |-> R(49388, 100), C5 |-> R(52325, 100),
     D5 |-> R(58733, 100), E5 |-> R(65925, 100), F5 |-> R(69846, 100),
     G5 |-> R(78399, 100), A5 |-> R(88000, 100)]

\* A list a call creates ([0.0] * max_len, [], a slice, a comprehension) is
\* a new object, next to the lists the call was given.
FreshAliasFirst(h) == 1
Fresh(h) == Len(h) + 1

\* The heap with the value val in the list object id.
Store(h, id, val) ==
    IF id = Len(h) + 1 THEN Append(h, val) ELSE [h EXCEPT ![id] = val]

VARIABLES
    pc,             \* "idle", or where the running call stands
    fn,             \* name of the function called
    args,           \* a generator's arguments
    random_draws,   \* calls of random.random() made by the call
    rng,            \* the random source: its position before and after
    tracks,         \* mix_tracks: the argument tuple
    samples,        \* loop_to_duration, save_wav: the input buffer
    duration,       \* the duration argument, in seconds
    target_samples, \* loop_to_duration: int(SAMPLE_RATE * duration)
    result,         \* the local result list / the value returned
    iter_parity,    \* loop_to_duration: parity of the iterations done
    raised,         \* "none", or the exception that ended the call
    destination,    \* save_wav: where the file name points
    dir_exists,     \* save_wav: the destination directory exists
    wav_file,       \* save_wav: the parameters set on the opened file
    frames,         \* save_wav: the 16-bit frames written, in order
    stdout,         \* save_wav: the lines printed
    fs_env,         \* save_wav: the file system's answers to the call
    fs_log,         \* save_wav: the calls it made, in order
    wav_data,       \* save_wav: the bytes of the file's data section
    batch,          \* main: the script run and how far its batch got
    cue,            \* a music cue: the function and the calls it has made
    heap,           \* the list objects of the call: arguments, then created
    NOTES           \* the module's table of note frequencies

vars == <<pc, fn, args, random_draws, rng, tracks, samples, duration, target_samples, result,
          iter_parity, raised, destination, dir_exists, wav_file, frames,
          stdout, fs_env, fs_log, wav_data, batch, cue, heap, NOTES>>

disk == <<destination, dir_exists, wav_file, frames, stdout, fs_env, fs_log,
          wav_data>>

NoCall ==
    /\ fn = "none"
    /\ args = <<>>
    /\ random_draws = 0
    /\ rng = [before |-> 0, after |-> 0]
    /\ tracks = <<>>
    /\ samples = <<>>
    /\ duration = RInt(0)
    /\ target_samples = 0
    /\ result = <<>>
    /\ iter_parity = 0
    /\ raised = "none"
    /\ destination = "none"
    /\ dir_exists = FALSE
    /\ wav_file = [nchannels |-> 0, sampwidth |-> 0, framerate |-> 0]
    /\ frames = <<>>
    /\ stdout = <<>>
    /\ fs_env = [mkdir_ok |-> TRUE, open_ok |-> TRUE]
    /\ fs_log = <<>>
    /\ wav_data = <<>>
    /\ batch = [script |-> "none", attempted |-> 0, failures |-> 0,
                reported |-> 0]
    /\ cue = [flag |-> FALSE, log |-> <<>>]
    /\ heap = <<>>

Init == pc = "idle" /\ NoCall /\ NOTES = NotesTable

\* mix_tracks(*ts): the whole call.
MixTracks ==
    /\ pc = "idle"
    /\ \E n \in 0..MaxTracks : \E ls \in TrackLens(n) :
       \E flat \in [1..SumLens(ls) -> MixVals], r \in RngStates :
        LET ts == CutTracks(flat, ls) IN
        /\ tracks' = ts
        /\ rng' = [before |-> r, after |-> r]
        /\ raised' = MixOutcome(ts)
        /\ result' = IF MixOutcome(ts) = "none" THEN mix_tracks(ts) ELSE <<>>
    /\ fn' = "mix_tracks"
    /\ pc' = "mix_done"
    /\ heap' = IF raised' = "none" THEN Store(tracks', Fresh(tracks'), result')
               ELSE tracks'
    /\ UNCHANGED <<args, random_draws, samples, duration, target_samples,
                   iter_parity, disk, batch, cue, NOTES>>

-----------------------------------------------------------------------------
(* loop_to_duration, one step per pass of its while loop                   *)

\* result.extend(samples)
ExtendSkipFirst(res, buf) == res \o (IF buf = <<>> THEN buf ELSE Tail(buf))
Extend(res, buf) == res \o buf

\* while len(result) < target_samples
LoopCondition(res, target) == Len(res) < target

\* target_samples = int(SAMPLE_RATE * duration); result = []
LoopCall ==
    /\ pc = "idle"
    /\ \E buf \in LoopBuffers, d \in Durations, r \in RngStates :
        /\ samples' = buf
        /\ duration' = d
        /\ target_samples' = NumSamples(d)
        /\ rng' = [before |-> r, after |-> r]
    /\ result' = <<>>
    /\ iter_parity' = 0
    /\ fn' = "loop_to_duration"
    /\ pc' = "loop"
    /\ heap' = Store(<<samples'>>, Fresh(<<samples'>>), <<>>)
    /\ UNCHANGED <<args, random_draws, tracks, raised, disk, batch, cue, NOTES>>

\* One pass of the loop body.
LoopIter ==
    /\ pc = "loop"
    /\ LoopCondition(result, target_samples)
    /\ result' = Extend(result, samples)
    /\ iter_parity' = 1 - iter_parity
    /\ heap' = Store(heap, Fresh(<<samples>>), result')
    /\ UNCHANGED <<pc, fn, args, random_draws, rng, tracks, samples, duration,
                   target_samples, raised, disk, batch, cue, NOTES>>

\* return result[:target_samples]
LoopExit ==
    /\ pc = "loop"
    /\ ~LoopCondition(result, target_samples)
    /\ result' = SlicePrefix(result, target_samples)
    /\ pc' = "loop_done"
    /\ heap' = Store(heap, Fresh(heap), result')
    /\ UNCHANGED <<fn, args, random_draws, rng, tracks, samples, duration,
                   target_samples, iter_parity, raised, disk, batch, cue, NOTES>>

\* A generator call: the whole call.  No generator validates its arguments;
\* range(num_samples) is empty when num_samples <= 0.  The only statement
\* that can raise is a division, by zero.
GenCall ==
    /\ pc = "idle"
    /\ \E g \in Generators, d \in Durations, r \in RngStates :
       \E a \in ArgsOf(g, d) :
        /\ fn' = g
        /\ args' = a
        /\ duration' = d
        /\ IF DividesByZero(Generate(g, a))
           THEN result' = <<>> /\ raised' = "ZeroDivisionError"
           ELSE result' = Drawn(g, Generate(g, a), r) /\ raised' = "none"
        /\ random_draws' = RandomDraws(g, Generate(g, a))
        /\ rng' = [before |-> r, after |-> r + RandomDraws(g, Generate(g, a))]
    /\ pc' = "gen_done"
    /\ heap' = IF fn' = "generate_arp"
               THEN Store(<<args'.notes>>, Fresh(<<args'.notes>>), result')
               ELSE <<result'>>
    /\ UNCHANGED <<tracks, samples, target_samples, iter_parity, disk,
                   batch, cue, NOTES>>

-----------------------------------------------------------------------------
(* save_wav                                                                *)

\* Sample values offered to save_wav: inside, on and outside [-1, 1].
WavVals == {R(-3, 2), RInt(-1), R(-1, 2), RInt(0), R(1, 2), RInt(1), R(3, 2)}

WavBuffers == BuffersOver(WavVals, MaxWavLen)

\* sample = max(-1.0, min(1.0, sample))
Clamp(sample) == RMax(RInt(-1), RMin(RInt(1), sample))

\* int(sample * 32767), on the clamped sample
QuantizeFloor(sample) == Floor(RMul(Clamp(sample), RInt(32767)))
QuantizeScale32768(sample) == PyInt(RMul(Clamp(sample), RInt(32768)))
QuantizeUnclamped(sample) == PyInt(RMul(sample, RInt(32767)))
Quantize(sample) == PyInt(RMul(Clamp(sample), RInt(32767)))

\* struct.pack('<h', q) raises struct.error outside the signed 16-bit range.
PackFails(q) == q < -32768 \/ q > 32767

\* The frames written before the loop ends or struct.pack raises.
RECURSIVE FramesOf(_)
FramesOf(buf) ==
    IF buf = <<>> \/ PackFails(Quantize(buf[1])) THEN <<>>
    ELSE <<Quantize(buf[1])>> \o FramesOf(Tail(buf))

\* Where the file name points: no directory component ("x.wav"), a directory
\* that exists, or one that does not.
Destinations == {"bare", "dir_exists", "dir_absent"}

NoFile == [nchannels |-> 0, sampwidth |-> 0, framerate |-> 0]

NoAnswers == [mkdir_ok |-> TRUE, open_ok |-> TRUE]

\* struct.pack('<h', q): the two bytes of q in two's complement, low byte
\* first.
PackBigEndian(q) == <<(q % 65536) \div 256, (q % 65536) % 256>>
Pack(q) == <<(q % 65536) % 256, (q % 65536) \div 256>>

\* wav_file.writeframes(packed), once per frame: the data section.
RECURSIVE DataOf(_)
DataOf(fr) == IF fr = <<>> THEN <<>> ELSE Pack(fr[1]) \o DataOf(Tail(fr))

\* The calls save_wav makes, in order, up to the one that raises; leaving
\* the with block closes the file.
SaveEvents(dest, mkdir_ok, open_ok, buf) ==
    IF dest = "bare" \/ (dest = "dir_absent" /\ ~mkdir_ok)
    THEN <<"makedirs:error">>
    ELSE IF ~open_ok THEN <<"makedirs", "open:error">>
    ELSE <<"makedirs", "open", "setnchannels", "setsampwidth", "setframerate">>
         \o [k \in 1..Len(FramesOf(buf)) |-> "writeframes"]
         \o (IF Len(FramesOf(buf)) < Len(buf)
             THEN <<"pack:error", "close">> ELSE <<"close", "print">>)

\* save_wav(filename, samples): the whole call.  mkdir_ok and open_ok are the
\* file system's answers to os.makedirs and wave.open.
SaveWav ==
    /\ pc = "idle"
    /\ \E buf \in WavBuffers, dest \in Destinations,
          mkdir_ok \in BOOLEAN, open_ok \in BOOLEAN :
        /\ samples' = buf
        /\ destination' = dest
        /\ fs_env' = [mkdir_ok |-> mkdir_ok, open_ok |-> open_ok]
        /\ fs_log' = SaveEvents(dest, mkdir_ok, open_ok, buf)
        /\ wav_data' = IF dest = "bare" \/ (dest = "dir_absent" /\ ~mkdir_ok)
                          \/ ~open_ok
                       THEN <<>> ELSE DataOf(FramesOf(buf))
        /\ IF dest = "bare"
           THEN \* os.makedirs('') raises FileNotFoundError
                /\ raised' = "FileNotFoundError"
                /\ dir_exists' = FALSE
                /\ wav_file' = NoFile /\ frames' = <<>> /\ stdout' = <<>>
           ELSE IF dest = "dir_absent" /\ ~mkdir_ok
           THEN /\ raised' = "OSError"
                /\ dir_exists' = FALSE
                /\ wav_file' = NoFile /\ frames' = <<>> /\ stdout' = <<>>
           ELSE IF ~open_ok
           THEN /\ raised' = "OSError"
                /\ dir_exists' = TRUE
                /\ wav_file' = NoFile /\ frames' = <<>> /\ stdout' = <<>>
           ELSE /\ dir_exists' = TRUE
                /\ wav_file' = [nchannels |-> 1, sampwidth |-> 2,
                                framerate |-> SAMPLE_RATE]
                /\ frames' = FramesOf(buf)
                /\ IF Len(FramesOf(buf)) < Len(buf)
                   THEN raised' = "struct.error" /\ stdout' = <<>>
                   ELSE raised' = "none" /\ stdout' = <<"Created">>
    /\ fn' = "save_wav"
    /\ pc' = "wav_done"
    /\ UNCHANGED <<args, random_draws, rng, tracks, duration, target_samples,
                   result, iter_parity, batch, cue, heap, NOTES>>

-----------------------------------------------------------------------------
(* main of generate_audio.py and of generate_music.py: one                 *)
(* save_wav(path, generator(...)) statement per asset, in a fixed order.   *)

\* The save_wav statements of each main.
AUDIO_ASSETS == 53
MUSIC_ASSETS == 12

Scripts == {"generate_audio", "generate_music"}

AssetCount(script) ==
    IF script = "generate_audio" THEN AUDIO_ASSETS ELSE MUSIC_ASSETS

NoBatch == [script |-> "none", attempted |-> 0, failures |-> 0, reported |-> 0]

-----------------------------------------------------------------------------
(* The fixed music cues.  A cue function is a fixed list of calls; a call  *)
(* is recorded as [op, ins, out]: what is called, the buffers it reads and *)
(* the buffer it makes, under the names the function gives them.           *)
(* "compose" is an inline loop that builds a buffer from generator calls,  *)
(* "slice" is buffer[:n], "concat" is a + b.                               *)

Stage(op, ins, out) == [op |-> op, ins |-> ins, out |-> out]

CueFunctions ==
    {"generate_main_menu_music", "generate_space_exploration_music",
     "generate_combat_music", "generate_boarding_music",
     "generate_victory_music", "generate_defeat_music"}

\* The cue functions with a mode argument: intense, escape.
Moded == {"generate_combat_music", "generate_boarding_music"}

\* The cue as the claim under study describes every cue: the component
\* tracks, the mixer, then the loop.
CueStagesMixThenLoop(f, flag) ==
    <<Stage("compose", <<>>, "track_a"),
      Stage("compose", <<>>, "track_b"),
      Stage("mix_tracks", <<"track_a", "track_b">>, "mixed"),
      Stage("loop_to_duration", <<"mixed">>, "return")>>

\* The calls of cue function f, in program order; flag is intense for the
\* combat cue and escape for the boarding cue.
CueStages(f, flag) ==
    CASE f = "generate_main_menu_music" ->
            <<Stage("compose", <<>>, "pad_sequence"),
              Stage("loop_to_duration", <<"pad_sequence">>, "pad_track"),
              Stage("generate_arp", <<>>, "arp_pattern"),
              Stage("loop_to_duration", <<"arp_pattern">>, "arp_track"),
              Stage("generate_pad", <<>>, "drone"),
              Stage("mix_tracks", <<"pad_track", "arp_track", "drone">>,
                    "return")>>
      [] f = "generate_space_exploration_music" ->
            <<Stage("compose", <<>>, "pad_sequence"),
              Stage("loop_to_duration", <<"pad_sequence">>, "pad_track"),
              Stage("compose", <<>>, "bass_sequence"),
              Stage("loop_to_duration", <<"bass_sequence">>, "bass_track"),
              Stage("generate_arp", <<>>, "arp"),
              Stage("loop_to_duration", <<"arp">>, "arp_track"),
              Stage("mix_tracks", <<"pad_track", "bass_track", "arp_track">>,
                    "return")>>
      [] f = "generate_combat_music" ->
            <<Stage("compose", <<>>, "bass_sequence"),
              Stage("loop_to_duration", <<"bass_sequence">>, "bass_track"),
              Stage("compose", <<>>, "pad_samples"),
              Stage("loop_to_duration", <<"pad_samples">>, "pad_track"),
              Stage("compose", <<>>, "hit_pattern"),
              Stage("loop_to_duration", <<"hit_pattern">>, "hit_track"),
              Stage("mix_tracks", <<"bass_track", "pad_track", "hit_track">>,
                    "return")>>
      [] f = "generate_boarding_music" ->
            <<Stage("generate_pad", <<>>, "drone"),
              Stage("generate_pad", <<>>, "pad1"),
              Stage("generate_pad", <<>>, "pad2"),
              Stage("compose", <<>>, "pulse_sequence"),
              Stage("slice", <<"pulse_sequence">>, "pulse_track")>>
            \o (IF flag
                THEN <<Stage("generate_arp", <<>>, "arp"),
                       Stage("loop_to_duration", <<"arp">>, "arp_track"),
                       Stage("mix_tracks",
                             <<"drone", "pad1", "pad2", "pulse_track",
                               "arp_track">>, "return")>>
                ELSE <<Stage("mix_tracks",
                             <<"drone", "pad1", "pad2", "pulse_track">>,
                             "return")>>)
      [] f = "generate_victory_music" ->
            <<Stage("compose", <<>>, "fanfare"),
              Stage("compose", <<>>, "final_chord"),
              Stage("concat", <<"fanfare", "final_chord">>, "result"),
              Stage("loop_to_duration", <<"result">>, "return")>>
      [] f = "generate_defeat_music" ->
            <<Stage("compose", <<>>, "descent"),
              Stage("compose", <<>>, "minor_chord"),
              Stage("concat", <<"descent", "minor_chord">>, "result"),
              Stage("loop_to_duration", <<"result">>, "return")>>

\* The length of a generator's buffer: one sample per pass of
\* "for i in range(int(SAMPLE_RATE * duration))".
GenLen(d) == IMax(NumSamples(d), 0)

\* len([0.0] * n)
ZerosLen(n) == IMax(n, 0)

\* len(buffer[:n])
SlicedLen(len, n) == IF n >= 0 THEN IMin(n, len) ELSE IMax(len + n, 0)

\* len(loop_to_duration(buffer, d)) for a buffer of len samples: extended
\* by len until target is reached, then cut at target; -1 stands for the
\* call that never returns (nothing to repeat, target not reached).
LoopedLenUntruncated(len, d) ==
    IF NumSamples(d) <= 0 THEN 0
    ELSE IF len = 0 THEN -1
    ELSE ((NumSamples(d) + len - 1) \div len) * len
LoopedLen(len, d) ==
    IF NumSamples(d) <= 0 THEN 0
    ELSE IF len = 0 THEN -1
    ELSE SlicedLen(((NumSamples(d) + len - 1) \div len) * len, NumSamples(d))

\* What a call does to buffers: the length of the one it makes and, when
\* it accumulates with "acc[i] += s", the length of the accumulator and
\* the largest number of samples added into it.
Made(len) == [len |-> len, size |-> 0, written |-> 0]
Accumulated(len, size, written) ==
    [len |-> len, size |-> size, written |-> written]

MaxOf(ns) == CHOOSE n \in ns : \A k \in ns : k <= n

\* mix_tracks over buffers of the lengths ls.
Mixed(ls) == Accumulated(MaxOf(ls), MaxOf(ls), MaxOf(ls))

\* A chord of pads summed into [0.0] * int(SAMPLE_RATE * chord_duration),
\* chords times over, the chords one after the other.
Chords(chords, chord_duration) ==
    Accumulated(chords * ZerosLen(NumSamples(chord_duration)),
                ZerosLen(NumSamples(chord_duration)),
                GenLen(chord_duration))

\* The buffer lengths of cue function f called with duration d, call by
\* call, in the order of CueStages.
CueLens(f, flag, d) ==
    LET T == GenLen(d)
    IN
    CASE f = "generate_main_menu_music" ->
            LET pad_sequence == Chords(4, RInt(4))
                arp_pattern == 4 * GenLen(R(1, 2))
            IN  <<pad_sequence,
                  Made(LoopedLen(pad_sequence.len, d)),
                  Made(arp_pattern),
                  Made(LoopedLen(arp_pattern, d)),
                  Made(T),
                  Mixed({LoopedLen(pad_sequence.len, d),
                         LoopedLen(arp_pattern, d), T})>>
      [] f = "generate_space_exploration_music" ->
            LET pad_sequence == Chords(4, RInt(6))
                bass_sequence == 4 * GenLen(RInt(6))
                arp == 6 * GenLen(R(4, 10))
            IN  <<pad_sequence,
                  Made(LoopedLen(pad_sequence.len, d)),
                  Made(bass_sequence),
                  Made(LoopedLen(bass_sequence, d)),
                  Made(arp),
                  Made(LoopedLen(arp, d)),
                  Mixed({LoopedLen(pad_sequence.len, d),
                         LoopedLen(bass_sequence, d), LoopedLen(arp, d)})>>
      [] f = "generate_combat_music" ->
            LET tempo_mult == IF flag THEN R(3, 2) ELSE RInt(1)
                bass_sequence ==
                    8 * (GenLen(RDiv(R(25, 100), tempo_mult))
                         + ZerosLen(PyInt(RDiv(RMul(RInt(SAMPLE_RATE),
                                                    R(25, 100)),
                                               tempo_mult))))
                pad_samples == Chords(1, RInt(8))
                hits == IF flag THEN 8 ELSE 4
                hit_pattern ==
                    hits * GenLen(R(15, 100))
                    + (16 - hits) * ZerosLen(NumSamples(R(15, 100)))
            IN  <<Made(bass_sequence),
                  Made(LoopedLen(bass_sequence, d)),
                  pad_samples,
                  Made(LoopedLen(pad_samples.len, d)),
                  Made(hit_pattern),
                  Made(LoopedLen(hit_pattern, d)),
                  Mixed({LoopedLen(bass_sequence, d),
                         LoopedLen(pad_samples.len, d),
                         LoopedLen(hit_pattern, d)})>>
      [] f = "generate_boarding_music" ->
            LET pulse_interval == IF flag THEN R(5, 10) ELSE R(8, 10)
                pulses == IMax(PyInt(RDiv(d, pulse_interval)), 0)
                pulse_sequence ==
                    pulses * (GenLen(R(1, 10))
                              + ZerosLen(NumSamples(R(5, 100)))
                              + GenLen(R(8, 100))
                              + ZerosLen(NumSamples(RSub(pulse_interval,
                                                         R(23, 100)))))
                pulse_track == SlicedLen(pulse_sequence, NumSamples(d))
                arp == 4 * GenLen(R(15, 100))
            IN  <<Made(T), Made(T), Made(T),
                  Made(pulse_sequence),
                  Made(pulse_track)>>
                \o (IF flag
                    THEN <<Made(arp),
                           Made(LoopedLen(arp, d)),
                           Mixed({T, pulse_track, LoopedLen(arp, d)})>>
                    ELSE <<Mixed({T, pulse_track})>>)
      [] f = "generate_victory_music" ->
            LET fanfare == 4 * GenLen(R(5, 10)) + 6 * GenLen(R(2, 10))
                final_chord == 4 * GenLen(RInt(3))
            IN  <<Made(fanfare),
                  Made(final_chord),
                  Made(fanfare + final_chord),
                  Made(LoopedLen(fanfare + final_chord, d))>>
      [] f = "generate_defeat_music" ->
            LET descent == 6 * GenLen(R(8, 10))
                minor_chord == 3 * GenLen(RInt(4))
            IN  <<Made(descent),
                  Made(minor_chord),
                  Made(descent + minor_chord),
                  Made(LoopedLen(descent + minor_chord, d))>>

\* The duration arguments offered to the cue functions: below one sample
\* period, a few samples, and lengths below, at and above a cue's unlooped
\* material.
CueDurations ==
    {Ticks(0), Ticks(1), Ticks(5), R(1, 2), R(17, 10), RInt(15), RInt(60)}

\* The next call of the running cue function and what it does to buffers.
NextStage(f, flag, d, k) == CueStages(f, flag)[k] @@ CueLens(f, flag, d)[k]

NoCue == [flag |-> FALSE, log |-> <<>>]

\* A cue function is called.
CueCall ==
    /\ pc = "idle"
    /\ \E f \in CueFunctions, flag \in BOOLEAN, d \in CueDurations :
        /\ flag => f \in Moded
        /\ fn' = f
        /\ duration' = d
        /\ cue' = [flag |-> flag, log |-> <<>>]
    /\ pc' = "cue"
    /\ UNCHANGED <<args, random_draws, rng, tracks, samples, target_samples,
                   result, iter_parity, raised, disk, batch, heap, NOTES>>

\* The cue function makes its next call.  An accumulation that adds more
\* samples than its accumulator holds raises IndexError; a loop with
\* nothing to repeat never returns.
CueStage ==
    /\ pc = "cue"
    /\ Len(cue.log) < Len(CueStages(fn, cue.flag))
    /\ LET stage == NextStage(fn, cue.flag, duration, Len(cue.log) + 1)
       IN  /\ cue' = [cue EXCEPT !.log = Append(@, stage)]
           /\ IF stage.written > stage.size
              THEN pc' = "cue_done" /\ raised' = "IndexError"
              ELSE IF stage.len < 0
              THEN pc' = "cue_hung" /\ UNCHANGED raised
              ELSE UNCHANGED <<pc, raised>>
    /\ UNCHANGED <<fn, args, random_draws, rng, tracks, samples, duration,
                   target_samples, result, iter_parity, disk, batch, heap,
                   NOTES>>

\* The cue function returns the buffer of its last call.
CueReturn ==
    /\ pc = "cue"
    /\ Len(cue.log) = Len(CueStages(fn, cue.flag))
    /\ pc' = "cue_done"
    /\ UNCHANGED <<fn, args, random_draws, rng, tracks, samples, duration,
                   target_samples, result, iter_parity, raised, disk, batch,
                   cue, heap, NOTES>>

-----------------------------------------------------------------------------
\* main() is entered.
MainStart ==
    /\ pc = "idle"
    /\ \E script \in Scripts :
        batch' = [script |-> script, attempted |-> 0, failures |-> 0,
                  reported |-> 0]
    /\ fn' = "main"
    /\ pc' = "main"
    /\ UNCHANGED <<args, random_draws, rng, tracks, samples, duration,
                   target_samples, result, iter_parity, raised, disk, cue,
                   heap, NOTES>>

\* What main does with an asset whose generation or save raises: there is
\* no try statement, the exception leaves main.
AssetFailure(b) ==
    [pc |-> "main_done", raised |-> "OSError",
     batch |-> [b EXCEPT !.attempted = @ + 1, !.failures = @ + 1]]

\* The next save_wav(path, generator(...)) statement: it succeeds, or the
\* file system makes save_wav raise.
MainAsset ==
    /\ pc = "main"
    /\ batch.attempted < AssetCount(batch.script)
    /\ \E ok \in BOOLEAN :
        IF ok
        THEN /\ batch' = [batch EXCEPT !.attempted = @ + 1]
             /\ UNCHANGED <<pc, raised, cue, heap, NOTES>>
        ELSE /\ batch' = AssetFailure(batch).batch
             /\ pc' = AssetFailure(batch).pc
             /\ raised' = AssetFailure(batch).raised
    /\ UNCHANGED <<fn, args, random_draws, rng, tracks, samples, duration,
                   target_samples, result, iter_parity, disk, cue,
                   heap, NOTES>>

\* Every statement ran: main prints its closing lines and returns.  Nothing
\* is collected on the way, so nothing but success is reported.
MainFinish ==
    /\ pc = "main"
    /\ batch.attempted = AssetCount(batch.script)
    /\ batch' = [batch EXCEPT !.reported = batch.failures]
    /\ pc' = "main_done"
    /\ UNCHANGED <<fn, args, random_draws, rng, tracks, samples, duration,
                   target_samples, result, iter_parity, raised, disk, cue,
                   heap, NOTES>>

\* The caller takes the outcome; the next call starts from a clean frame.
Return ==
    /\ pc \in {"mix_done", "loop_done", "gen_done", "wav_done", "main_done",
              "cue_done"}
    /\ pc' = "idle"
    /\ fn' = "none"
    /\ args' = <<>>
    /\ random_draws' = 0
    /\ rng' = [before |-> 0, after |-> 0]
    /\ tracks' = <<>>
    /\ samples' = <<>>
    /\ duration' = RInt(0)
    /\ target_samples' = 0
    /\ result' = <<>>
    /\ iter_parity' = 0
    /\ raised' = "none"
    /\ destination' = "none"
    /\ dir_exists' = FALSE
    /\ wav_file' = NoFile
    /\ frames' = <<>>
    /\ stdout' = <<>>
    /\ fs_env' = NoAnswers
    /\ fs_log' = <<>>
    /\ wav_data' = <<>>
    /\ batch' = NoBatch
    /\ cue' = NoCue
    /\ heap' = <<>>
    /\ UNCHANGED NOTES

Next ==
    \/ MixTracks
    \/ LoopCall
    \/ LoopIter
    \/ LoopExit
    \/ GenCall
    \/ SaveWav
    \/ MainStart
    \/ MainAsset
    \/ MainFinish
    \/ CueCall
    \/ CueStage
    \/ CueReturn
    \/ Return

Spec == Init /\ [][Next]_vars

\* A running call keeps running: the interpreter executes the loop's next
\* pass, or its exit, whenever there is one.
FairSpec == Spec /\ WF_vars(LoopIter) /\ WF_vars(LoopExit)

-----------------------------------------------------------------------------
(* Properties.  The Expected* operators restate, from the mathematics of   *)
(* the statements, what the operators above compute the way the code does. *)

\* The generators the claims about generators range over.
ListedGenerators ==
    {"generate_sine_wave", "generate_noise", "generate_sweep",
     "generate_explosion", "generate_laser", "generate_door",
     "generate_loot_pickup", "generate_alert", "generate_ambient_loop",
     "generate_note", "generate_pad", "generate_bass"}

\* s clamped to [-1, 1].
ExpectedClamp(s) ==
    IF RLt(s, RInt(-1)) THEN RInt(-1) ELSE IF RLt(RInt(1), s) THEN RInt(1) ELSE s

\* q is x rounded toward zero: the integer of x's sign nearest to x from the
\* side of zero.
IsTruncationOf(q, x) ==
    IF x[1] >= 0
    THEN q * x[2] <= x[1] /\ x[1] < (q + 1) * x[2]
    ELSE (q - 1) * x[2] < x[1] /\ x[1] <= q * x[2]

\* The longest length among the tracks ts.
ExpectedMaxLen(ts) ==
    CHOOSE m \in {Len(ts[k]) : k \in 1..Len(ts)} :
        \A k \in 1..Len(ts) : Len(ts[k]) <= m

\* The sum, over the first k tracks that reach index i, of their sample at i.
RECURSIVE ExpectedSumAt(_, _, _)
ExpectedSumAt(ts, k, i) ==
    IF k = 0 THEN RInt(0)
    ELSE RAdd(ExpectedSumAt(ts, k - 1, i),
              IF i <= Len(ts[k]) THEN ts[k][i] ELSE RInt(0))

ExpectedSum(ts) ==
    [i \in 1..ExpectedMaxLen(ts) |-> ExpectedSumAt(ts, Len(ts), i)]

\* x is the largest absolute value in the non-empty buffer buf.
IsPeakOf(x, buf) ==
    /\ \E i \in 1..Len(buf) : RAbs(buf[i]) = x
    /\ \A i \in 1..Len(buf) : RLe(RAbs(buf[i]), x)

ExpectedPeak(buf) == CHOOSE x \in {RAbs(buf[i]) : i \in 1..Len(buf)} : IsPeakOf(x, buf)

\* The tracks ts in the order perm.
Permuted(ts, perm) == [k \in 1..Len(ts) |-> ts[perm[k]]]

OrdersOf(n) == {f \in [1..n -> 1..n] : \A a, b \in 1..n : a # b => f[a] # f[b]}

MixReturned == pc = "mix_done" /\ raised = "none"

\* C1 (as stated): every 16-bit integer save_wav writes is
\* floor(c * 32767), c the sample clamped to [-1, 1].
C1_QuantizedIsFloor ==
    (pc = "wav_done" /\ raised = "none") =>
        /\ Len(frames) = Len(samples)
        /\ \A i \in 1..Len(samples) :
            frames[i] = Floor(RMul(ExpectedClamp(samples[i]), RInt(32767)))

\* C1 (amended): every 16-bit integer save_wav writes is c * 32767 rounded
\* toward zero, c the sample clamped to [-1, 1]; for negative c with
\* non-integer c * 32767 that is one above the floor.
C1_QuantizedIsTruncation ==
    (pc = "wav_done" /\ raised = "none") =>
        /\ Len(frames) = Len(samples)
        /\ \A i \in 1..Len(samples) :
            LET x == RMul(ExpectedClamp(samples[i]), RInt(32767))
            IN  /\ IsTruncationOf(frames[i], x)
                /\ (x[1] < 0 /\ x[2] # 1) => frames[i] = Floor(x) + 1

C1_Witness ==
    /\ pc = "wav_done" /\ raised = "none"
    /\ \E i \in 1..Len(samples) :
        samples[i] = R(-1, 2) /\ frames[i] = -16383
    /\ \E i \in 1..Len(samples) :
        samples[i] = R(-3, 2) /\ frames[i] = -32767

\* C2: a listed generator called with duration <= 0 is rejected with an
\* error and returns no buffer.
C2_NonPositiveDurationRejected ==
    (pc = "gen_done" /\ fn \in ListedGenerators /\ RLe(duration, RInt(0))) =>
        raised # "none"

\* C3 (as stated): mix_tracks(mix_tracks(A, B), C), mix_tracks(A,
\* mix_tracks(B, C)) and mix_tracks(A, B, C) are equal for all buffers.
C3_MixAssociative ==
    (MixReturned /\ Len(tracks) = 3) =>
        LET A == tracks[1]
            B == tracks[2]
            C == tracks[3]
        IN  /\ mix_tracks(<<mix_tracks(<<A, B>>), C>>) = result
            /\ mix_tracks(<<A, mix_tracks(<<B, C>>)>>) = result

\* The pair sum of buffers X and Y is not normalized: it is empty or its
\* peak is at most 0.9.
PairSumUnscaled(X, Y) ==
    LET sum == ExpectedSum(<<X, Y>>)
    IN  sum = <<>> \/ RLe(ExpectedPeak(sum), R(9, 10))

\* C3 (amended): the three mixes are equal whenever neither intermediate
\* pair sum (A + B, B + C) has peak above 0.9, whether or not the sum of all
\* three is normalized.
C3_MixAssociativeUnscaledPairs ==
    (MixReturned /\ Len(tracks) = 3
        /\ PairSumUnscaled(tracks[1], tracks[2])
        /\ PairSumUnscaled(tracks[2], tracks[3])) =>
        LET A == tracks[1]
            B == tracks[2]
            C == tracks[3]
        IN  /\ mix_tracks(<<mix_tracks(<<A, B>>), C>>) = result
            /\ mix_tracks(<<A, mix_tracks(<<B, C>>)>>) = result

C3_Witness ==
    /\ MixReturned /\ Len(tracks) = 3
    /\ tracks[1] # <<>> /\ tracks[2] # <<>> /\ tracks[3] # <<>>
    /\ PairSumUnscaled(tracks[1], tracks[2])
    /\ PairSumUnscaled(tracks[2], tracks[3])
    /\ RLt(R(9, 10), ExpectedPeak(ExpectedSum(tracks)))
    /\ mix_tracks(<<mix_tracks(<<tracks[1], tracks[2]>>), tracks[3]>>) = result

\* C4: the buffer mix_tracks returns does not depend on the order of its
\* track arguments; in particular mix_tracks(A, B) = mix_tracks(B, A) for
\* buffers of unequal length.
C4_MixCommutative ==
    MixReturned =>
        \A perm \in OrdersOf(Len(tracks)) :
            mix_tracks(Permuted(tracks, perm)) = result

C4_Witness ==
    /\ MixReturned /\ Len(tracks) = 2
    /\ Len(tracks[1]) = 1 /\ Len(tracks[2]) = 2
    /\ tracks[1][1] # tracks[2][1]
    /\ mix_tracks(<<tracks[2], tracks[1]>>) = result

\* C5: with sum the elementwise sum of the tracks and peak its largest
\* absolute value, mix_tracks returns sum scaled by 0.85 / peak (so of peak
\* exactly 0.85) when peak > 0.9, and sum unchanged when peak <= 0.9.
C5_MixNormalization ==
    MixReturned =>
        LET sum == ExpectedSum(tracks)
        IN  IF sum = <<>> THEN result = <<>>
            ELSE LET peak == ExpectedPeak(sum)
                 IN  IF RLt(R(9, 10), peak)
                     THEN /\ Len(result) = Len(sum)
                          /\ \A i \in 1..Len(sum) :
                                result[i] = RDiv(RMul(sum[i], R(85, 100)), peak)
                          /\ IsPeakOf(R(85, 100), result)
                     ELSE result = sum

C5_Witness ==
    /\ MixReturned /\ Len(tracks) = 2
    /\ Len(tracks[1]) # Len(tracks[2])
    /\ RLt(R(9, 10), ExpectedPeak(ExpectedSum(tracks)))
    /\ IsPeakOf(R(85, 100), result)
    /\ \E i \in 1..Len(result) : RLt(RAbs(result[i]), R(85, 100))

\* C6: mix_tracks of one or more tracks returns a buffer of exactly the
\* longest track's length; a shorter track adds nothing at the indexes at or
\* beyond its length, and no index outside the result is written.
C6_MixLength ==
    (pc = "mix_done" /\ Len(tracks) >= 1) =>
        /\ raised = "none"
        /\ Len(result) = ExpectedMaxLen(tracks)
        /\ MixSum(tracks) = ExpectedSum(tracks)
        /\ \A k \in 1..Len(tracks) : Len(tracks[k]) <= Len(result)

C6_Witness ==
    /\ MixReturned /\ Len(tracks) = 3
    /\ Len(tracks[1]) = 1 /\ Len(tracks[2]) = 2 /\ Len(tracks[3]) = 0
    /\ Len(result) = 2
    /\ result[2] = tracks[2][2]

\* C7: every call of loop_to_duration returns, the empty buffer included.
C7_LoopAlwaysReturns == (pc = "loop") ~> (pc = "loop_done")

\* C8: for a non-empty buffer and duration D >= 0, loop_to_duration returns
\* exactly floor(D * 44100) samples.
C8_LoopLength ==
    (pc = "loop_done" /\ samples # <<>> /\ RLe(RInt(0), duration)) =>
        Len(result) = Floor(RMul(duration, RInt(44100)))

C8_Witness ==
    /\ pc = "loop_done"
    /\ Len(samples) = 2
    /\ target_samples = 3
    /\ Len(result) = 3

\* C9: for a non-empty buffer buf and duration D >= 0, the result r of
\* loop_to_duration has r[i] = buf[i mod len(buf)] at every index i (from 0).
C9_LoopRepeats ==
    (pc = "loop_done" /\ samples # <<>> /\ RLe(RInt(0), duration)) =>
        \A i \in 1..Len(result) :
            result[i] = samples[((i - 1) % Len(samples)) + 1]

C9_Witness ==
    /\ pc = "loop_done"
    /\ Len(samples) = 2 /\ samples[1] # samples[2]
    /\ Len(result) = 3
    /\ result = <<samples[1], samples[2], samples[1]>>

\* C10: for duration > 0, whatever the other arguments, a listed generator
\* returns a buffer of exactly floor(duration * 44100) samples.
C10_GeneratorLength ==
    (pc = "gen_done" /\ fn \in ListedGenerators /\ RLt(RInt(0), duration)) =>
        /\ raised = "none"
        /\ Len(result) = Floor(RMul(duration, RInt(44100)))

C10_Witness ==
    /\ pc = "gen_done" /\ fn = "generate_bass"
    /\ duration = Ticks(5)
    /\ Len(result) = 2

-----------------------------------------------------------------------------
(* save_wav and the batch mains                                            *)

\* The position of the first event e in the log, 0 when it is absent.
FirstIndex(log, e) ==
    IF \E k \in 1..Len(log) : log[k] = e
    THEN CHOOSE k \in 1..Len(log) :
            log[k] = e /\ \A j \in 1..(k - 1) : log[j] # e
    ELSE 0

Happened(log, e) == FirstIndex(log, e) > 0

Before(log, a, b) ==
    /\ Happened(log, a)
    /\ Happened(log, b) => FirstIndex(log, a) < FirstIndex(log, b)

\* The signed 16-bit integer whose little-endian bytes are lo, hi.
LittleEndian16(lo, hi) ==
    IF lo + 256 * hi >= 32768 THEN lo + 256 * hi - 65536 ELSE lo + 256 * hi

\* C11 (as stated): when a main has ended, every asset of its batch was
\* attempted, whatever failed on the way, and the failures met were the ones
\* reported at the end.
C11_BatchContinuesAfterFailure ==
    pc = "main_done" =>
        /\ batch.attempted = AssetCount(batch.script)
        /\ batch.reported = batch.failures

\* C12: every sample of a saved buffer has a frame, and the frame decoded as
\* q / 32767 differs from the clamped sample by strictly less than 1 / 32767.
C12_RoundTripError ==
    (pc = "wav_done" /\ Happened(fs_log, "open")) =>
        /\ Len(frames) = Len(samples)
        /\ \A i \in 1..Len(frames) :
              RLt(RAbs(RSub(R(frames[i], 32767), ExpectedClamp(samples[i]))),
                  R(1, 32767))

C12_Witness ==
    /\ pc = "wav_done" /\ raised = "none"
    /\ samples = <<R(-1, 2), R(-1, 1)>>
    /\ frames = <<-16383, -32767>>

\* C13: save_wav never fails in struct.pack: every integer handed to the
\* packer lies in [-32767, 32767], whatever the sample, and every sample of
\* an opened file gets its frame.
C13_PackedInRange ==
    pc = "wav_done" =>
        /\ raised # "struct.error"
        /\ ~Happened(fs_log, "pack:error")
        /\ \A i \in 1..Len(frames) : frames[i] >= -32767 /\ frames[i] <= 32767
        /\ Happened(fs_log, "open") => Len(frames) = Len(samples)

C13_Witness ==
    /\ pc = "wav_done" /\ raised = "none"
    /\ samples = <<R(3, 2), R(-3, 2)>>
    /\ frames = <<32767, -32767>>

\* C14 (as stated): for every destination file name, with a directory that
\* exists, one that does not, or no directory component, the directory is
\* ensured before the file is opened, a directory that already exists is
\* not an error, and when the directory cannot be created no file is opened
\* or written.
C14_DirectoryEnsured ==
    pc = "wav_done" =>
        /\ destination \in {"bare", "dir_exists"} =>
              ~Happened(fs_log, "makedirs:error")
        /\ (destination = "dir_absent" /\ fs_env.mkdir_ok) =>
              Happened(fs_log, "makedirs") /\ dir_exists
        /\ Happened(fs_log, "open") \/ Happened(fs_log, "open:error") =>
              /\ Before(fs_log, "makedirs", "open")
              /\ Before(fs_log, "makedirs", "open:error")
        /\ Happened(fs_log, "makedirs:error") =>
              /\ ~Happened(fs_log, "open") /\ ~Happened(fs_log, "open:error")
              /\ ~Happened(fs_log, "writeframes")
              /\ frames = <<>> /\ wav_data = <<>> /\ wav_file = NoFile

\* C17: an opened file is declared 1 channel, 2 bytes wide, 44100 Hz before
\* any frame is written; one frame is written per sample, in order, each as
\* the two little-endian bytes of its integer, so the data section holds
\* 2 * len(samples) bytes, none for an empty buffer.
C17_WavLayout ==
    (pc = "wav_done" /\ Happened(fs_log, "open")) =>
        /\ wav_file = [nchannels |-> 1, sampwidth |-> 2, framerate |-> 44100]
        /\ Before(fs_log, "setnchannels", "writeframes")
        /\ Before(fs_log, "setsampwidth", "writeframes")
        /\ Before(fs_log, "setframerate", "writeframes")
        /\ Cardinality({k \in 1..Len(fs_log) : fs_log[k] = "writeframes"})
              = Len(samples)
        /\ Len(wav_data) = 2 * Len(samples)
        /\ \A i \in 1..Len(samples) :
              /\ wav_data[2 * i - 1] \in 0..255
              /\ wav_data[2 * i] \in 0..255
              /\ LittleEndian16(wav_data[2 * i - 1], wav_data[2 * i])
                    = Quantize(samples[i])

C17_Witness ==
    /\ pc = "wav_done" /\ raised = "none"
    /\ samples = <<R(-1, 2), R(1, 1)>>
    /\ wav_data = <<1, 192, 255, 127>>

-----------------------------------------------------------------------------
(* The envelopes of generate_sine_wave, generate_noise and generate_note   *)

\* A returned call of a generator with a fade-in and a fade-out window.
FadeCall == pc = "gen_done" /\ fn \in {"generate_sine_wave", "generate_note"}

NoiseCall == pc = "gen_done" /\ fn = "generate_noise"

\* The sample counts of the call's windows.
FadeInCount ==
    IF fn = "generate_note" THEN NumSamples(args.attack)
    ELSE IF fn = "generate_sine_wave" THEN NumSamples(args.fade_in)
    ELSE 0

FadeOutCount ==
    IF fn = "generate_note" THEN NumSamples(args.release)
    ELSE NumSamples(args.fade_out)

\* The envelope multiplier of the returned sample of index i (from 0).
EnvelopeAt(i) == RDiv(result[i + 1].gain, args.volume)

\* C15 (as stated): no division by zero, and the envelope is 1 at index 0
\* when the fade-in count is 0 and 1 at the last index when the fade-out
\* count is 0.
C15_UnitEnvelopeAtZeroFade ==
    (FadeCall \/ NoiseCall) =>
        /\ raised # "ZeroDivisionError"
        /\ (Len(result) >= 1 /\ FadeInCount = 0) => EnvelopeAt(0) = RInt(1)
        /\ (Len(result) >= 1 /\ FadeOutCount = 0) =>
              EnvelopeAt(Len(result) - 1) = RInt(1)

\* C15 (amended): no division by zero; with fade-in count 0 the envelope at
\* index 0 is 1 unless the fade-out window reaches index 0 (fo > N), where
\* it is N / fo; with fade-out count 0 the envelope at the last index is 1
\* unless the fade-in window reaches it (fi > N - 1), where it is
\* (N - 1) / fi.
C15_UnitEnvelopeOutsideOtherWindow ==
    (FadeCall \/ NoiseCall) =>
        /\ raised # "ZeroDivisionError"
        /\ (Len(result) >= 1 /\ FadeInCount = 0) =>
              EnvelopeAt(0) = IF FadeOutCount > Len(result)
                              THEN R(Len(result), FadeOutCount) ELSE RInt(1)
        /\ (Len(result) >= 1 /\ FadeOutCount = 0) =>
              EnvelopeAt(Len(result) - 1)
                = IF FadeInCount > Len(result) - 1
                  THEN R(Len(result) - 1, FadeInCount) ELSE RInt(1)

C15_Witness ==
    /\ FadeCall /\ fn = "generate_sine_wave" /\ raised = "none"
    /\ Len(result) = 1
    /\ FadeInCount = 0 /\ FadeOutCount = 2
    /\ EnvelopeAt(0) = R(1, 2)

\* C18 (as stated): the envelope is i / fi at every index i < fi,
\* (N - i) / fo at every index i > N - fo, and 1 at every other index.
C18_EnvelopeShape ==
    (FadeCall /\ raised = "none") =>
        \A i \in 0..(Len(result) - 1) :
            /\ i < FadeInCount => EnvelopeAt(i) = R(i, FadeInCount)
            /\ i > Len(result) - FadeOutCount =>
                  EnvelopeAt(i) = R(Len(result) - i, FadeOutCount)
            /\ (i >= FadeInCount /\ i <= Len(result) - FadeOutCount) =>
                  EnvelopeAt(i) = RInt(1)

\* C18 (amended): the envelope is i / fi at every index i < fi, fade-in
\* taking precedence where the windows overlap; (N - i) / fo at every index
\* i >= fi with i > N - fo; and 1 at every other index.
C18_EnvelopeShapeFadeInFirst ==
    (FadeCall /\ raised = "none") =>
        \A i \in 0..(Len(result) - 1) :
            /\ i < FadeInCount => EnvelopeAt(i) = R(i, FadeInCount)
            /\ (i >= FadeInCount /\ i > Len(result) - FadeOutCount) =>
                  EnvelopeAt(i) = R(Len(result) - i, FadeOutCount)
            /\ (i >= FadeInCount /\ i <= Len(result) - FadeOutCount) =>
                  EnvelopeAt(i) = RInt(1)

C18_Witness ==
    /\ FadeCall /\ fn = "generate_note" /\ raised = "none"
    /\ Len(result) = 1
    /\ FadeInCount = 2 /\ FadeOutCount = 2
    /\ EnvelopeAt(0) = RInt(0)

\* C19: for N >= 1 and non-negative window counts, every envelope
\* multiplier of generate_sine_wave, generate_noise and generate_note lies
\* in [0, 1].
C19_EnvelopeInUnitInterval ==
    (FadeCall \/ NoiseCall) =>
        /\ raised = "none"
        /\ \A i \in 0..(Len(result) - 1) :
              RLe(RInt(0), EnvelopeAt(i)) /\ RLe(EnvelopeAt(i), RInt(1))

C19_Witness ==
    /\ NoiseCall /\ raised = "none"
    /\ Len(result) = 3
    /\ FadeOutCount = 2
    /\ EnvelopeAt(0) = RInt(1) /\ EnvelopeAt(2) = R(1, 2)

-----------------------------------------------------------------------------
(* The random source                                                       *)

ToneOnly ==
    {"generate_sine_wave", "generate_sweep", "generate_beep",
     "generate_ui_click", "generate_laser", "generate_loot_pickup",
     "generate_alert", "generate_ambient_loop", "generate_note",
     "generate_pad", "generate_bass", "generate_arp"}

NoiseBearing == {"generate_noise", "generate_explosion", "generate_door"}

\* C16: a tone-only generator, mix_tracks and loop_to_duration draw nothing
\* from the random source and leave it where it stood, and no sample they
\* return depends on a random number, so the buffer is the same whatever
\* the source's state; generate_noise, generate_explosion and
\* generate_door draw, one number per sample, and no other call does.
C16_ToneOnlyDeterministic ==
    /\ (pc = "gen_done" /\ fn \in ToneOnly) =>
          /\ random_draws = 0
          /\ rng.after = rng.before
          /\ \A k \in 1..Len(result) : result[k].draw = -1
          /\ \A r \in RngStates : result = Drawn(fn, Generate(fn, args), r)
    /\ (pc \in {"mix_done", "loop", "loop_done"}) =>
          /\ random_draws = 0
          /\ rng.after = rng.before
    /\ (pc = "mix_done" /\ raised = "none") => result = mix_tracks(tracks)
    /\ (pc = "gen_done" /\ fn \in NoiseBearing) =>
          /\ random_draws = Len(result)
          /\ rng.after = rng.before + Len(result)
          /\ \A k \in 1..Len(result) : result[k].draw = rng.before + k - 1
    /\ random_draws > 0 => fn \in NoiseBearing

C16_Witness ==
    /\ pc = "gen_done" /\ fn = "generate_arp"
    /\ Len(args.notes) = 2 /\ Len(result) = 4
    /\ rng.before = 5 /\ rng.after = 5
    /\ random_draws = 0

-----------------------------------------------------------------------------
(* The music cues                                                          *)

\* The positions in the cue's log of its calls of op.
CallsOf(op) == {k \in 1..Len(cue.log) : cue.log[k].op = op}

\* Buffer b is read by the call at position k.
Reads(k, b) == \E j \in 1..Len(cue.log[k].ins) : cue.log[k].ins[j] = b

MixingCues ==
    {"generate_main_menu_music", "generate_space_exploration_music",
     "generate_combat_music", "generate_boarding_music"}

\* C20 (as stated): every cue calls the mixer, and every loop_to_duration
\* of a cue comes after a mix_tracks call and loops that call's result.
C20_MixThenLoop ==
    pc = "cue_done" =>
        /\ CallsOf("mix_tracks") # {}
        /\ \A l \in CallsOf("loop_to_duration") :
              \E m \in CallsOf("mix_tracks") :
                  m < l /\ Reads(l, cue.log[m].out)

\* C20 (amended): the menu, space exploration, combat and boarding cues
\* call the mixer once, as their last call, and return its result; each of
\* their loop_to_duration calls comes before it, on one component track,
\* and the mixer reads the looped track.  The victory and defeat cues never
\* call the mixer: they concatenate their parts and return the
\* concatenation looped.
C20_LoopThenMix ==
    pc = "cue_done" =>
        /\ fn \in MixingCues =>
              /\ CallsOf("mix_tracks") = {Len(cue.log)}
              /\ cue.log[Len(cue.log)].out = "return"
              /\ \A l \in CallsOf("loop_to_duration") :
                    /\ l < Len(cue.log)
                    /\ Len(cue.log[l].ins) = 1
                    /\ Reads(Len(cue.log), cue.log[l].out)
        /\ fn \notin MixingCues =>
              /\ CallsOf("mix_tracks") = {}
              /\ CallsOf("loop_to_duration") = {Len(cue.log)}
              /\ cue.log[Len(cue.log)].out = "return"
              /\ \E c \in CallsOf("concat") :
                    Reads(Len(cue.log), cue.log[c].out)

C20_Witness ==
    /\ pc = "cue_done" /\ fn = "generate_boarding_music" /\ cue.flag
    /\ Len(cue.log) = 8
    /\ cue.log[7].op = "loop_to_duration" /\ cue.log[8].op = "mix_tracks"

-----------------------------------------------------------------------------
(* The mixer's output                                                      *)

\* C24: the peak of a buffer mix_tracks returns is at most 0.9: it is 0.85
\* when the summed peak exceeded 0.9 and the summed peak otherwise; the
\* encoder's clamp leaves every returned sample as it is.
C24_MixPeakBounded ==
    (MixReturned /\ result # <<>>) =>
        /\ RLe(ExpectedPeak(result), R(9, 10))
        /\ ExpectedPeak(result)
              = IF RLt(R(9, 10), ExpectedPeak(ExpectedSum(tracks)))
                THEN R(85, 100) ELSE ExpectedPeak(ExpectedSum(tracks))
        /\ \A i \in 1..Len(result) :
              /\ Clamp(result[i]) = result[i]
              /\ Quantize(result[i]) = PyInt(RMul(result[i], RInt(32767)))

C24_Witness ==
    /\ MixReturned /\ Len(tracks) = 2
    /\ tracks[1] = <<RInt(1), R(9, 20)>> /\ tracks[2] = <<RInt(1)>>
    /\ result = <<R(85, 100), R(153, 800)>>

\* C25: mixing a mixed buffer alone gives it back: mix_tracks(mix_tracks(T))
\* equals mix_tracks(T), element by element.
C25_MixIdempotent ==
    MixReturned =>
        /\ MixOutcome(<<result>>) = "none"
        /\ mix_tracks(<<result>>) = result

C25_Witness ==
    /\ MixReturned /\ Len(tracks) = 3
    /\ Len(result) = 2 /\ result[1] # result[2]
    /\ RLt(R(9, 10), ExpectedPeak(ExpectedSum(tracks)))
    /\ mix_tracks(<<result>>) = result

\* C26: mix_tracks with no track fails with an error and returns nothing;
\* with one or more tracks, all of them empty, it returns the empty buffer
\* and raises nothing.
C26_MixOfNothing ==
    pc = "mix_done" =>
        /\ tracks = <<>> => raised = "ValueError"
        /\ (tracks # <<>> /\ \A k \in 1..Len(tracks) : tracks[k] = <<>>) =>
              raised = "none" /\ result = <<>>

C26_Witness ==
    /\ pc = "mix_done" /\ raised = "none"
    /\ tracks = <<<<>>, <<>>>>
    /\ result = <<>>

-----------------------------------------------------------------------------
(* generate_arp                                                            *)

ArpCall == pc = "gen_done" /\ fn = "generate_arp"

\* The k-th stretch of n samples of the returned buffer.
ArpSegment(k, n) == SubSeq(result, (k - 1) * n + 1, k * n)

\* C22: for note_duration > 0, generate_arp returns len(notes) stretches of
\* floor(note_duration * 44100) samples; stretch k is the buffer of
\* generate_note(notes[k], note_duration, volume, 0.01, 0.05); no notes, no
\* samples.
C22_ArpIsConcatenation ==
    (ArpCall /\ RLt(RInt(0), duration)) =>
        LET n == Floor(RMul(duration, RInt(44100)))
        IN  /\ raised = "none"
            /\ Len(result) = Len(args.notes) * n
            /\ args.notes = <<>> => result = <<>>
            /\ \A k \in 1..Len(args.notes) :
                  ArpSegment(k, n)
                    = Drawn("generate_note",
                            generate_note(args.notes[k], duration, args.volume,
                                          R(1, 100), R(5, 100)),
                            rng.before)

C22_Witness ==
    /\ ArpCall /\ raised = "none"
    /\ args.notes = <<RInt(220), RInt(440)>>
    /\ duration = Ticks(4)
    /\ Len(result) = 4
    /\ result[1].freq = RInt(220) /\ result[3].freq = RInt(440)

-----------------------------------------------------------------------------
(* Frame: what a call leaves untouched                                     *)

\* C23: mix_tracks, loop_to_duration and generate_arp leave the lists they
\* are given as they were, whether or not the mix was rescaled and while
\* the loop repeats and truncates; the result is a list of its own; the
\* NOTES table keeps its values through every call.
C23_InputsUnchanged ==
    /\ pc = "mix_done" =>
          /\ \A k \in 1..Len(tracks) : heap[k] = tracks[k]
          /\ raised = "none" =>
                Len(heap) = Len(tracks) + 1 /\ heap[Len(heap)] = result
    /\ pc \in {"loop", "loop_done"} =>
          /\ heap[1] = samples
          /\ heap[Len(heap)] = result /\ Len(heap) >= 2
    /\ (pc = "gen_done" /\ fn = "generate_arp") =>
          heap = <<args.notes, result>>
    /\ NOTES = NotesTable

C23_Witness ==
    /\ pc = "mix_done" /\ raised = "none"
    /\ tracks = <<<<RInt(1), R(9, 20)>>, <<RInt(1)>>>>
    /\ heap = <<<<RInt(1), R(9, 20)>>, <<RInt(1)>>,
                <<R(85, 100), R(153, 800)>>>>

-----------------------------------------------------------------------------
(* Amplitude of the single generators                                      *)

VolumeBounded ==
    {"generate_sine_wave", "generate_noise", "generate_sweep",
     "generate_explosion", "generate_laser", "generate_note", "generate_pad",
     "generate_bass"}

\* The largest absolute value the returned sample k can take: its gain
\* times the bound of its waveform term.
AmplitudeBound(k) == RMul(RAbs(result[k].gain), result[k].weight)

\* C27: for volume in [0, 1] and duration > 0, every sample of the listed
\* generators is at most volume in absolute value, hence inside [-1, 1],
\* where the encoder's clamp changes nothing.
C27_SampleWithinVolume ==
    (/\ pc = "gen_done" /\ fn \in VolumeBounded
     /\ RLt(RInt(0), duration)
     /\ RLe(RInt(0), args.volume) /\ RLe(args.volume, RInt(1))) =>
        /\ raised = "none"
        /\ \A k \in 1..Len(result) :
              /\ RLe(AmplitudeBound(k), args.volume)
              /\ Clamp(AmplitudeBound(k)) = AmplitudeBound(k)
              /\ Clamp(RSub(RInt(0), AmplitudeBound(k)))
                    = RSub(RInt(0), AmplitudeBound(k))

C27_Witness ==
    /\ pc = "gen_done" /\ fn = "generate_pad" /\ raised = "none"
    /\ args.volume = RInt(1)
    /\ Len(result) = 3
    /\ AmplitudeBound(1) = RInt(1)

-----------------------------------------------------------------------------
(* Cue lengths                                                             *)

\* C21: called with duration > 0, with either value of its flag, a cue
\* function returns a buffer of exactly floor(duration * 44100) samples,
\* and none of its chord or track accumulations adds a sample beyond the
\* end of its accumulator.
C21_CueLength ==
    (pc \in {"cue", "cue_hung", "cue_done"} /\ RLt(RInt(0), duration)) =>
        /\ raised = "none"
        /\ pc # "cue_hung"
        /\ \A k \in 1..Len(cue.log) :
              cue.log[k].written <= cue.log[k].size
        /\ pc = "cue_done" =>
              /\ cue.log[Len(cue.log)].out = "return"
              /\ cue.log[Len(cue.log)].len
                    = Floor(RMul(duration, RInt(44100)))

C21_Witness ==
    /\ pc = "cue_done" /\ fn = "generate_boarding_music" /\ ~cue.flag
    /\ duration = R(17, 10)
    /\ cue.log[4].len = 70560 /\ cue.log[5].len = 70560
    /\ cue.log[6].op = "mix_tracks" /\ cue.log[6].size = 74970
    /\ cue.log[6].len = 74970

TypeOK ==
    /\ pc \in {"idle", "mix_done", "loop", "loop_done", "gen_done", "wav_done",
              "main", "main_done", "cue", "cue_hung", "cue_done"}
    /\ raised \in {"none", "ValueError", "IndexError", "FileNotFoundError",
                    "OSError", "struct.error", "ZeroDivisionError"}

=============================================================================
